---- MODULE Spec2Model ----
(***************************************************************************)
(* Model of the scaffolding pipeline of shopify-cli-extensions             *)
(* (create/create.go): Process.Run / Process.Undo over the four tasks      *)
(* MakeDir, CreateSourceFiles, MergeTemplates, MergeYamlAndJsonFiles, the  *)
(* filesystem they write to, and the pure helpers getMainFileName,         *)
(* getMainTemplate, mergeYaml and mergeJson.                               *)
(*                                                                         *)
(* A file name is a sequence of tokens (<<"package", ".json">>), a path a  *)
(* sequence of names (<<root, src, index.js>>).  The filesystem is a       *)
(* function from the finite universe of paths to entries.                  *)
(***************************************************************************)
EXTENDS Integers, Sequences, FiniteSets, TLC

VARIABLES
    pc,             \* position of Process.Run
    taskId,         \* loop variable of Process.Run (0-based, as in the code)
    cursor,         \* index of the next file of the walk of the running task
    status,         \* Process.status
    err,            \* named return value of Process.Run
    undoErr,        \* undoErr of Process.Run
    fsys,           \* the filesystem
    fs0,            \* the filesystem when Process.Run was called (history)
    project,        \* the project descriptor bound to the tasks
    project0,       \* the descriptor when Process.Run was called (history)
    newFilePaths,   \* closure variable of MergeTemplates
    filesToRestore, \* closure variable of MergeYamlAndJsonFiles
    runLog,         \* the tasks whose Run was invoked, in order (history)
    retLog,         \* what each invoked Run returned, in order (history)
    undoLog,        \* task ids whose Undo was invoked, in order (history)
    writeLog,       \* file writes of the running invocation (history)
    faults,         \* number of injected I/O, template or format failures
    args,           \* the arguments CLI.create was called with
    rootDir,        \* Development.RootDir of the running invocation
    other,          \* the state of a second invocation while it is not running
    active,         \* which of the two invocations is running
    connections,    \* keys of ExtensionsApi.connections: the registered clients
    connection,     \* the websocket connection of each client
    notifications,  \* the notifications channel of each client
    hpc,            \* position of sendStatusUpdates for each client
    rpc,            \* position of handleClientMessages for each client
    npc,            \* the goroutine calling Notify
    spc,            \* the goroutine calling Shutdown
    sent,           \* the messages written to each client, in order (history)
    closes,         \* close(notifications) executed per client (history)
    sentOnClosed,   \* clients whose closed channel was sent on (history)
    connectedFailed,\* clients whose "connected" write failed (history)
    crashed,        \* a panic outside an HTTP handler has ended the process
    mOrig, mNew, mOut, mpc  \* inputs, result and position of the merge harness

vars == << pc, taskId, cursor, status, err, undoErr, fsys, fs0, project,
           project0, newFilePaths, filesToRestore, runLog, retLog, undoLog,
           writeLog, faults, args, rootDir, other, active,
           connections, connection, notifications, hpc, rpc, npc, spc, sent,
           closes, sentOnClosed, connectedFailed, crashed,
           mOrig, mNew, mOut, mpc >>

apiVars == << connections, connection, notifications, hpc, rpc, npc, spc,
              sent, closes, sentOnClosed, connectedFailed, crashed >>

pipeVars == << pc, taskId, cursor, status, err, undoErr, fsys, fs0, project,
               project0, newFilePaths, filesToRestore, runLog, retLog,
               undoLog, writeLog, faults, args, rootDir, other, active,
               apiVars >>

sessionVars == << args, rootDir, other, active, apiVars >>

mergeVars == << mOrig, mNew, mOut, mpc >>

-----------------------------------------------------------------------------
(* Bounds *)

\* how many operations of one invocation may fail for external reasons
MaxFaults == 2

-----------------------------------------------------------------------------
(* Errors *)

NoErr == [kind |-> "nil"]

Error(kind, op) == [kind |-> kind, op |-> op]

-----------------------------------------------------------------------------
(* Names, paths and the template store *)

templateFileExtension == ".tpl"

defaultSourceDir == <<"src">>

\* the root directories an invocation may be given
DefaultRoot == << <<"root">> >>

RootDirs == { DefaultRoot, << <<"other">> >>, << <<"root">>, <<"src">> >> }

\* project.Development.RootDir
RootDir == rootDir

Join(dir, name) == Append(dir, name)

HasSuffix(path, ext) ==
    LET name == path[Len(path)] IN name[Len(name)] = ext

TrimSuffix(path, ext) ==
    LET name == path[Len(path)] IN
    IF name[Len(name)] = ext
    THEN [path EXCEPT ![Len(path)] = SubSeq(name, 1, Len(name) - 1)]
    ELSE path

Contains(s, tok) == \E i \in 1..Len(s) : s[i] = tok

ToUpper(s) ==
    CASE s = "checkout_ui" -> "CHECKOUT_UI"
      [] OTHER -> s

\* the template ids a caller may pass (main.go, args[2])
TemplateIds ==
    { <<"javascript">>, <<"react">>, <<"typescript">>,
      <<"typescript", "-", "react">> }

ExtensionType == "checkout_ui"

\* names of the files of the generic subtree, in walk order
GenericFiles ==
    << <<".gitignore", ".tpl">>, <<".shopify-cli", ".yml", ".tpl">>,
       <<"LICENSE", ".md">>, <<"README", ".md", ".tpl">> >>

\* names of the files directly under the type's subtree, in walk order
TypeFiles ==
    << <<".shopify-cli", ".yml">>, <<"javascript", ".js">>,
       <<"package", ".json">>, <<"react", ".js">>, <<"tsconfig", ".json">> >>

\* names of the files of the type's source subtree, in walk order
TypeSourceFiles == << <<"helpers", ".js">> >>

MainFileNames == { <<"index", ".tsx">>, <<"index", ".ts">>, <<"index", ".js">> }

\* SourceDirPath joined to the default root directory in place of the
\* project's
SourceDirPathDefaultRoot == Join(DefaultRoot, defaultSourceDir)

\* create.go 66
SourceDirPath == Join(RootDir, defaultSourceDir)

\* the paths an invocation with root directory r may read or write
PathsUnder(r) ==
    LET src == Join(r, defaultSourceDir) IN
    {r, src}
    \cup {Join(src, n) : n \in MainFileNames}
    \cup {Join(src, TypeSourceFiles[i]) : i \in 1..Len(TypeSourceFiles)}
    \cup {Join(src, <<"old", ".js">>)}
    \cup {Join(r, TypeFiles[i]) : i \in 1..Len(TypeFiles)}
    \cup {TrimSuffix(Join(r, GenericFiles[i]), templateFileExtension) :
             i \in 1..Len(GenericFiles)}

AllPaths == UNION {PathsUnder(r) : r \in RootDirs}

IsPrefix(dir, path) ==
    /\ Len(dir) <= Len(path)
    /\ SubSeq(path, 1, Len(dir)) = dir

Parent(path) == SubSeq(path, 1, Len(path) - 1)

-----------------------------------------------------------------------------
(* File contents *)

Text(s) == [t |-> "text", s |-> s]

Json(doc) == [t |-> "json", doc |-> doc]

Malformed == [t |-> "malformed"]

JNull == [t |-> "null"]

JMap(m) == [t |-> "map", m |-> m]

JStr(s) == [t |-> "str", s |-> s]

\* a string map given by its key/value pairs
MapOf(pairs) ==
    [k \in {p[1] : p \in pairs} |-> (CHOOSE p \in pairs : p[1] = k)[2]]

AbsentE == [kind |-> "absent"]

DirE == [kind |-> "dir"]

FileE(content) == [kind |-> "file", content |-> content]

Exists(fs, path) == path \in AllPaths /\ fs[path].kind # "absent"

-----------------------------------------------------------------------------
(* fsutils: filesystem helpers.  Each returns the new filesystem and an    *)
(* error; `fail` is an externally caused failure of the operation.         *)

Ancestors(path) == {SubSeq(path, 1, n) : n \in 1..Len(path)}

MakeDirOp(fs, path, fail) ==
    IF fail THEN [fs |-> fs, err |-> Error("IOError", "MakeDir")]
    ELSE IF Exists(fs, path) THEN [fs |-> fs, err |-> NoErr]
    ELSE [fs |-> [p \in AllPaths |->
                    IF p \in Ancestors(path) /\ fs[p].kind = "absent"
                    THEN DirE ELSE fs[p]],
          err |-> NoErr]

RemoveDirOp(fs, path, fail) ==
    IF fail THEN [fs |-> fs, err |-> Error("UndoIOError", "RemoveDir")]
    ELSE [fs |-> [p \in AllPaths |->
                    IF IsPrefix(path, p) THEN AbsentE ELSE fs[p]],
          err |-> NoErr]

\* create or truncate `path` and write `content`
WriteFileOp(fs, path, content, fail, op) ==
    IF fail \/ ~Exists(fs, Parent(path)) \/ fs[Parent(path)].kind # "dir"
            \/ fs[path].kind = "dir"
    THEN [fs |-> fs,
          err |-> Error(IF op = "Undo" THEN "UndoIOError" ELSE "IOError", op)]
    ELSE [fs |-> [fs EXCEPT ![path] = FileE(content)], err |-> NoErr]

RemoveOp(fs, path, fail) ==
    IF fail \/ ~Exists(fs, path)
    THEN [fs |-> fs, err |-> Error("UndoIOError", "Remove")]
    ELSE [fs |-> [fs EXCEPT ![path] = AbsentE], err |-> NoErr]

\* OpenFileForAppend succeeds exactly when the file is there
OpenFileForAppendFails(fs, path) == ~(Exists(fs, path) /\ fs[path].kind = "file")

\* formatter keyed by the file extension; content is kept
FormatContent(path, content) == content

FormatJSON(doc) == doc

-----------------------------------------------------------------------------
(* The embedded template store *)

PackageTemplate ==
    Json([dependencies    |-> JMap(MapOf({<<"a", "2">>, <<"b", "3">>})),
          devDependencies |-> JMap(MapOf({<<"d", "2">>}))])

TsconfigTemplate == Json([name |-> JStr("tsconfig")])

\* content of the file `name` of the type's subtree
TypeTemplate(name) ==
    CASE name = <<".shopify-cli", ".yml">> ->
            Text(<<"---", "\n", "extension_points:", "\n">>)
      [] name = <<"package", ".json">>  -> PackageTemplate
      [] name = <<"tsconfig", ".json">> -> TsconfigTemplate
      [] name = <<"react", ".js">>      -> Text(<<"render(App)", "\n">>)
      [] name = <<"javascript", ".js">> -> Text(<<"extend(root)", "\n">>)
      [] name = <<"helpers", ".js">>    -> Text(<<"export {}", "\n">>)
      [] OTHER -> Text(<<>>)

\* the generic template `name` executed with the project as its data
RenderTemplate(name, proj) ==
    Text(<< "type: ", proj.FormattedType, "\n",
            IF proj.React THEN "renderer: react" ELSE "renderer: vanilla",
            "\n" >>)

-----------------------------------------------------------------------------
(* Pure helpers of create.go *)

\* getMainFileName with the TypeScript test of its first branch left out
getMainFileNameReactOnly(proj) ==
    IF proj.React THEN <<"index", ".tsx">>
    ELSE IF proj.TypeScript THEN <<"index", ".ts">>
    ELSE <<"index", ".js">>

getMainFileName(proj) ==
    IF proj.React /\ proj.TypeScript THEN <<"index", ".tsx">>
    ELSE IF proj.TypeScript THEN <<"index", ".ts">>
    ELSE <<"index", ".js">>

\* getMainTemplate choosing the react body for React with TypeScript only
getMainTemplateTypeScriptOnly(proj) ==
    IF proj.React /\ proj.TypeScript THEN <<"react", ".js">>
    ELSE <<"javascript", ".js">>

getMainTemplate(proj) ==
    IF proj.React THEN <<"react", ".js">> ELSE <<"javascript", ".js">>

\* strings.Replace(s, old, "", 1): drop the first occurrence of `old`
RECURSIVE ReplaceFirst(_, _)
ReplaceFirst(s, old) ==
    IF s = <<>> THEN <<>>
    ELSE IF Head(s) = old THEN Tail(s)
    ELSE <<Head(s)>> \o ReplaceFirst(Tail(s), old)

mergeYaml(originalContent, newContent) ==
    LET newStr == ReplaceFirst(newContent, "---")
    IN  originalContent \o newStr

GoNil == [t |-> "nil"]

GoMap(m) == [t |-> "map", m |-> m]

\* the value a map[string]string field gets from the document
UnmarshalMapField(doc, field) ==
    IF field \notin DOMAIN doc THEN [err |-> FALSE, v |-> GoNil]
    ELSE IF doc[field].t = "null" THEN [err |-> FALSE, v |-> GoNil]
    ELSE IF doc[field].t = "map" THEN [err |-> FALSE, v |-> GoMap(doc[field].m)]
    ELSE [err |-> TRUE, v |-> GoNil]

UnmarshalStringField(doc, field) ==
    IF field \notin DOMAIN doc THEN [err |-> FALSE, v |-> ""]
    ELSE IF doc[field].t = "null" THEN [err |-> FALSE, v |-> ""]
    ELSE IF doc[field].t = "str" THEN [err |-> FALSE, v |-> doc[field].s]
    ELSE [err |-> TRUE, v |-> ""]

ZeroPackageJSON ==
    [DevDependencies |-> GoNil, Dependencies |-> GoNil,
     License |-> "", Scripts |-> GoNil]

\* json.Unmarshal(content, &packageJSON{})
Unmarshal(content) ==
    IF content.t # "json" THEN [err |-> TRUE, v |-> ZeroPackageJSON]
    ELSE LET dd == UnmarshalMapField(content.doc, "devDependencies")
             d  == UnmarshalMapField(content.doc, "dependencies")
             l  == UnmarshalStringField(content.doc, "license")
             sc == UnmarshalMapField(content.doc, "scripts")
         IN  [err |-> dd.err \/ d.err \/ l.err \/ sc.err,
              v   |-> [DevDependencies |-> dd.v, Dependencies |-> d.v,
                       License |-> l.v, Scripts |-> sc.v]]

MarshalMap(g) == IF g.t = "nil" THEN JNull ELSE JMap(g.m)

\* json.Marshal(packageJSON): every field of the struct is written
Marshal(pkg) ==
    Json([devDependencies |-> MarshalMap(pkg.DevDependencies),
          dependencies    |-> MarshalMap(pkg.Dependencies),
          license         |-> JStr(pkg.License),
          scripts         |-> MarshalMap(pkg.Scripts)])

GoKeys(g) == IF g.t = "nil" THEN {} ELSE DOMAIN g.m

\* for k, v := range from { into[k] = v }; writing to a nil map panics
AssignAll(into, from) ==
    IF GoKeys(from) = {} THEN [panic |-> FALSE, v |-> into]
    ELSE IF into.t = "nil" THEN [panic |-> TRUE, v |-> into]
    ELSE [panic |-> FALSE,
          v |-> GoMap([k \in DOMAIN into.m \cup DOMAIN from.m |->
                         IF k \in DOMAIN from.m THEN from.m[k] ELSE into.m[k]])]

NilBytes == Text(<<>>)

mergeJson(originalContent, newContent) ==
    LET result    == Unmarshal(originalContent)
        newResult == Unmarshal(newContent)
        deps      == AssignAll(result.v.Dependencies, newResult.v.Dependencies)
        devDeps   == AssignAll(result.v.DevDependencies, newResult.v.DevDependencies)
    IN  IF result.err
        THEN [panic |-> FALSE, err |-> Error("MergeError", "Unmarshal original"),
              out |-> NilBytes]
        ELSE IF newResult.err
        THEN [panic |-> FALSE, err |-> Error("MergeError", "Unmarshal new"),
              out |-> NilBytes]
        ELSE IF deps.panic \/ devDeps.panic
        THEN [panic |-> TRUE, err |-> NoErr, out |-> NilBytes]
        ELSE [panic |-> FALSE, err |-> NoErr,
              out |-> FormatJSON(Marshal([result.v EXCEPT
                                            !.Dependencies = deps.v,
                                            !.DevDependencies = devDeps.v]))]

-----------------------------------------------------------------------------
(* State after NewExtensionProject has built the process (create.go 23-37) *)

NumTasks == 4

TaskIds == 0..(NumTasks - 1)

\* entries the caller may hand over in the descriptor
EntriesChoices ==
    { [k \in {} |-> <<>>],
      [k \in {"other"} |-> << <<"lib">>, <<"other", ".js">> >>] }

NewProject(template, entries) ==
    [Type          |-> ExtensionType,
     Template      |-> template,
     Entries       |-> entries,
     FormattedType |-> ToUpper(ExtensionType),
     React         |-> Contains(template, "react"),
     TypeScript    |-> Contains(template, "typescript")]

\* the arguments of `create`: type, renderer, template, root directory
\* (main.go 57-66)
CreateArgs(template) ==
    << <<ExtensionType>>, <<"renderer">>, template, RootDir[1] >>

\* number of websocket clients that connect
NumClients == 2

Clients == 1..NumClients

\* number of calls of Notify
MaxNotifies == 1

\* the goroutine of Notify or Shutdown between two calls
Idle(calls) == [at |-> "idle", visited |-> {}, target |-> 0, calls |-> calls]

\* api.go 58-64: the API as configureExtensionsApi builds it, an empty
\* sync.Map of connections, before any request
NewApi ==
    /\ connections = {}
    /\ connection = [c \in Clients |-> "none"]
    /\ notifications = [c \in Clients |-> "nil"]
    /\ hpc = [c \in Clients |-> "request"]
    /\ rpc = [c \in Clients |-> "off"]
    /\ npc = Idle(0)
    /\ spc = Idle(0)
    /\ sent = [c \in Clients |-> <<>>]
    /\ closes = [c \in Clients |-> 0]
    /\ sentOnClosed = {}
    /\ connectedFailed = {}
    /\ crashed = FALSE

\* no second invocation
NoInvocation == [pc |-> "none"]

\* one invocation, of the default root directory
Solo ==
    /\ rootDir = DefaultRoot
    /\ other = NoInvocation
    /\ active = 1

AllAbsent == [p \in AllPaths |-> AbsentE]

PackagePath == Join(RootDir, <<"package", ".json">>)

YamlPath == Join(RootDir, <<".shopify-cli", ".yml">>)

TsconfigPath == Join(RootDir, <<"tsconfig", ".json">>)

OldSourcePath == Join(SourceDirPath, <<"old", ".js">>)

\* what the root directory may hold at package.json before the run
PackageChoices ==
    { AbsentE,
      FileE(Json([dependencies    |-> JMap(MapOf({<<"a", "1">>})),
                  devDependencies |-> JMap(MapOf({<<"d", "1">>})),
                  license         |-> JStr("MIT")])),
      FileE(Json([license |-> JStr("MIT")])),
      FileE(Malformed) }

YamlChoices == { AbsentE, FileE(Text(<<"x: 1", "\n">>)) }

TsconfigChoices == { AbsentE, FileE(Json([name |-> JStr("mine")])) }

ReadmePath == Join(RootDir, <<"README", ".md">>)

\* the filesystems Process.Run may start from: no root directory, or a
\* root directory holding any combination of the files above
InitialFilesystems ==
    {AllAbsent} \cup
    { [p \in AllPaths |->
         CASE p = RootDir       -> DirE
           [] p = PackagePath   -> pkg
           [] p = YamlPath      -> yml
           [] p = TsconfigPath  -> ts
           [] p = SourceDirPath -> IF src THEN DirE ELSE AbsentE
           [] p = OldSourcePath -> IF src THEN FileE(Text(<<"old", "\n">>))
                                   ELSE AbsentE
           [] OTHER -> AbsentE] :
      pkg \in PackageChoices, yml \in YamlChoices,
      ts \in TsconfigChoices, src \in BOOLEAN }

InitPipeline ==
    /\ Solo
    /\ NewApi
    /\ pc = "loop"
    /\ taskId = 0
    /\ cursor = 1
    /\ status = [t \in TaskIds |-> ""]
    /\ err = NoErr
    /\ undoErr = NoErr
    /\ fsys \in InitialFilesystems
    /\ fs0 = fsys
    /\ \E template \in TemplateIds, entries \in EntriesChoices :
          project = NewProject(template, entries)
    /\ project0 = project
    /\ newFilePaths = <<>>
    /\ filesToRestore = <<>>
    /\ runLog = <<>>
    /\ retLog = <<>>
    /\ undoLog = <<>>
    /\ writeLog = <<>>
    /\ faults = 0
    /\ args = CreateArgs(project.Template)

IdleMerge ==
    /\ mOrig = NilBytes
    /\ mNew = NilBytes
    /\ mOut = [panic |-> FALSE, err |-> NoErr, out |-> NilBytes]
    /\ mpc = "idle"

Init == InitPipeline /\ IdleMerge

-----------------------------------------------------------------------------
(* Process.Run (create.go 265-277) *)

\* the failures that may be injected into the next operation
Faulty(S) == IF faults < MaxFaults THEN S \cup {"none"} ELSE {"none"}

Inject(f) == faults' = IF f = "none" THEN faults ELSE faults + 1

\* MakeDir has nothing to create, and so nothing to fail at, when the
\* directory is there
MakeDirFaults(path) == IF Exists(fsys, path) THEN {} ELSE {"mkdir"}

\* Entry with the second and third task exchanged
EntrySwapped(t) ==
    CASE t = 0 -> "MakeDir"
      [] t = 1 -> "MergeTemplates"
      [] t = 2 -> "CreateSourceFiles"
      [] t = 3 -> "MergeYamlAndJsonFiles"

\* position at which the Run of task t starts: the order of the tasks
\* handed to NewProcess (create.go 32-37)
Entry(t) ==
    CASE t = 0 -> "MakeDir"
      [] t = 1 -> "CreateSourceFiles"
      [] t = 2 -> "MergeTemplates"
      [] t = 3 -> "MergeYamlAndJsonFiles"

\* for taskId, task := range p.tasks { err = task.Run() ...
TaskCall ==
    /\ pc = "loop"
    /\ taskId < NumTasks
    /\ pc' = Entry(taskId)
    /\ cursor' = 1
    /\ runLog' = Append(runLog, Entry(taskId))
    /\ UNCHANGED << taskId, status, err, undoErr, fsys, fs0, project, project0,
                    newFilePaths, filesToRestore, retLog, undoLog, writeLog,
                    faults >>
    /\ UNCHANGED mergeVars
    /\ UNCHANGED sessionVars

\* the loop is over: return (err is nil)
RunReturn ==
    /\ pc = "loop"
    /\ taskId = NumTasks
    /\ pc' = "done"
    /\ UNCHANGED << taskId, cursor, status, err, undoErr, fsys, fs0, project,
                    project0, newFilePaths, filesToRestore, runLog, retLog,
                    undoLog, writeLog, faults >>
    /\ UNCHANGED mergeVars
    /\ UNCHANGED sessionVars

\* TaskReturns going round the loop again with the same task after an error
TaskReturnsRetry(e) ==
    /\ err' = e
    /\ retLog' = Append(retLog, [task |-> taskId, err |-> e])
    /\ IF e # NoErr
       THEN /\ status' = [status EXCEPT ![taskId] = "fail"]
            /\ pc' = "loop"
            /\ taskId' = taskId
       ELSE /\ status' = [status EXCEPT ![taskId] = "success"]
            /\ pc' = "loop"
            /\ taskId' = taskId + 1

\* TaskReturns leaving out the status of a task that succeeded
TaskReturnsNoStatus(e) ==
    /\ err' = e
    /\ retLog' = Append(retLog, [task |-> taskId, err |-> e])
    /\ IF e # NoErr
       THEN /\ status' = [status EXCEPT ![taskId] = "fail"]
            /\ pc' = "undo"
            /\ taskId' = taskId
       ELSE /\ status' = status
            /\ pc' = "loop"
            /\ taskId' = taskId + 1

\* TaskReturns going on with the next task after an error
TaskReturnsSkipFailed(e) ==
    /\ err' = e
    /\ retLog' = Append(retLog, [task |-> taskId, err |-> e])
    /\ status' = [status EXCEPT ![taskId] =
                     IF e # NoErr THEN "fail" ELSE "success"]
    /\ pc' = "loop"
    /\ taskId' = taskId + 1

\* task.Run() returned e: lines 267-274
TaskReturns(e) ==
    /\ err' = e
    /\ retLog' = Append(retLog, [task |-> taskId, err |-> e])
    /\ IF e # NoErr
       THEN /\ status' = [status EXCEPT ![taskId] = "fail"]
            /\ pc' = "undo"
            /\ taskId' = taskId
       ELSE /\ status' = [status EXCEPT ![taskId] = "success"]
            /\ pc' = "loop"
            /\ taskId' = taskId + 1

\* OnEachFile returned e for file number `cursor` of a walk of n files
\* (fs.Execute stops at the first error)
WalkStep(e, n) ==
    IF e # NoErr \/ cursor = n
    THEN TaskReturns(e) /\ cursor' = cursor
    ELSE /\ cursor' = cursor + 1
         /\ UNCHANGED << pc, taskId, status, err, retLog >>

\* a completed write of task t: the path, what was there before, and
\* whether a snapshot of the path was recorded when it was written
Written(t, path, before, snap) ==
    [task |-> t, path |-> path, before |-> before, snap |-> snap]

-----------------------------------------------------------------------------
(* Task 0: MakeDir(rootDir).Run (create.go 56-58) *)

MakeDirRun ==
    /\ pc = "MakeDir"
    /\ \E f \in Faulty(MakeDirFaults(RootDir)) :
          LET r == MakeDirOp(fsys, RootDir, f = "mkdir") IN
          /\ Inject(f)
          /\ fsys' = r.fs
          /\ TaskReturns(r.err)
    /\ UNCHANGED << cursor, undoErr, fs0, project, project0, newFilePaths,
                    filesToRestore, runLog, undoLog, writeLog >>
    /\ UNCHANGED mergeVars
    /\ UNCHANGED sessionVars

-----------------------------------------------------------------------------
(* Task 1: CreateSourceFiles.Run (create.go 69-98) *)

\* lines 70-85: the source directory, entries["main"], the main file
CreateSourceFilesRun ==
    /\ pc = "CreateSourceFiles"
    /\ \E f \in Faulty(MakeDirFaults(SourceDirPath) \cup {"copy"}) :
          LET d       == MakeDirOp(fsys, SourceDirPath, f = "mkdir")
              entries == [k \in {"main"} |->
                            Join(<<defaultSourceDir>>, getMainFileName(project))]
              target  == RootDir \o entries["main"]
              c       == WriteFileOp(d.fs, target,
                                     TypeTemplate(getMainTemplate(project)),
                                     f = "copy", "CopyFile")
          IN
          /\ Inject(f)
          /\ IF d.err # NoErr
             THEN /\ fsys' = d.fs
                  /\ UNCHANGED << project, writeLog, cursor >>
                  /\ TaskReturns(d.err)
             ELSE /\ project' = [project EXCEPT !.Entries = entries]
                  /\ fsys' = c.fs
                  /\ IF c.err # NoErr
                     THEN /\ UNCHANGED << writeLog, cursor >>
                          /\ TaskReturns(c.err)
                     ELSE /\ writeLog' = Append(writeLog,
                                 Written(1, target, fsys[target], FALSE))
                          /\ IF Len(TypeSourceFiles) = 0
                             THEN TaskReturns(NoErr) /\ cursor' = cursor
                             ELSE /\ pc' = "CreateSourceFilesEach"
                                  /\ cursor' = 1
                                  /\ UNCHANGED << taskId, status, err, retLog >>
    /\ UNCHANGED << undoErr, fs0, project0, newFilePaths, filesToRestore,
                    runLog, undoLog >>
    /\ UNCHANGED mergeVars
    /\ UNCHANGED sessionVars

\* lines 90-95: OnEachFile of the walk of the type's source subtree
CreateSourceFilesEach ==
    /\ pc = "CreateSourceFilesEach"
    /\ \E f \in Faulty({"copy"}) :
          LET name   == TypeSourceFiles[cursor]
              target == Join(SourceDirPath, name)
              c      == WriteFileOp(fsys, target, TypeTemplate(name),
                                    f = "copy", "CopyFile")
          IN
          /\ Inject(f)
          /\ fsys' = c.fs
          /\ writeLog' = IF c.err = NoErr
                         THEN Append(writeLog,
                                 Written(1, target, fsys[target], FALSE))
                         ELSE writeLog
          /\ WalkStep(c.err, Len(TypeSourceFiles))
    /\ UNCHANGED << undoErr, fs0, project, project0, newFilePaths,
                    filesToRestore, runLog, undoLog >>
    /\ UNCHANGED mergeVars
    /\ UNCHANGED sessionVars

-----------------------------------------------------------------------------
(* Task 2: MergeTemplates.Run (create.go 108-133) *)

\* MergeTemplatesEach with the append of line 128 moved above the render
\* and the format of the content
MergeTemplatesEachRecordFirst ==
    /\ pc = "MergeTemplates"
    /\ LET name       == GenericFiles[cursor]
           targetPath == Join(RootDir, name)
       IN
       IF ~HasSuffix(targetPath, templateFileExtension)
       THEN /\ WalkStep(NoErr, Len(GenericFiles))
            /\ UNCHANGED << fsys, newFilePaths, writeLog, faults >>
       ELSE \E f \in Faulty({"template", "format", "write"}) :
               LET targetFilePath   == TrimSuffix(targetPath, templateFileExtension)
                   content          == RenderTemplate(name, project)
                   formattedContent == FormatContent(targetFilePath, content)
                   w == WriteFileOp(fsys, targetFilePath, formattedContent,
                                    f = "write", "CopyFileContent")
               IN
               /\ Inject(f)
               /\ IF f = "template"
                  THEN /\ WalkStep(Error("TemplateError", "mergeTemplateWithData"),
                                   Len(GenericFiles))
                       /\ newFilePaths' = Append(newFilePaths, targetFilePath)
                       /\ UNCHANGED << fsys, writeLog >>
                  ELSE IF f = "format"
                  THEN /\ WalkStep(Error("FormatError", "FormatContent"),
                                   Len(GenericFiles))
                       /\ newFilePaths' = Append(newFilePaths, targetFilePath)
                       /\ UNCHANGED << fsys, writeLog >>
                  ELSE /\ newFilePaths' = Append(newFilePaths, targetFilePath)
                       /\ fsys' = w.fs
                       /\ writeLog' = IF w.err = NoErr
                                      THEN Append(writeLog,
                                              Written(2, targetFilePath,
                                                      fsys[targetFilePath],
                                                      FALSE))
                                      ELSE writeLog
                       /\ WalkStep(w.err, Len(GenericFiles))
    /\ UNCHANGED << undoErr, fs0, project, project0, filesToRestore, runLog,
                    undoLog >>
    /\ UNCHANGED mergeVars
    /\ UNCHANGED sessionVars

\* lines 112-130: OnEachFile of the walk of the generic subtree
MergeTemplatesEach ==
    /\ pc = "MergeTemplates"
    /\ LET name       == GenericFiles[cursor]
           targetPath == Join(RootDir, name)
       IN
       IF ~HasSuffix(targetPath, templateFileExtension)
       THEN /\ WalkStep(NoErr, Len(GenericFiles))
            /\ UNCHANGED << fsys, newFilePaths, writeLog, faults >>
       ELSE \E f \in Faulty({"template", "format", "write"}) :
               LET targetFilePath   == TrimSuffix(targetPath, templateFileExtension)
                   content          == RenderTemplate(name, project)
                   formattedContent == FormatContent(targetFilePath, content)
                   w == WriteFileOp(fsys, targetFilePath, formattedContent,
                                    f = "write", "CopyFileContent")
               IN
               /\ Inject(f)
               /\ IF f = "template"
                  THEN /\ WalkStep(Error("TemplateError", "mergeTemplateWithData"),
                                   Len(GenericFiles))
                       /\ UNCHANGED << fsys, newFilePaths, writeLog >>
                  ELSE IF f = "format"
                  THEN /\ WalkStep(Error("FormatError", "FormatContent"),
                                   Len(GenericFiles))
                       /\ UNCHANGED << fsys, newFilePaths, writeLog >>
                  ELSE /\ newFilePaths' = Append(newFilePaths, targetFilePath)
                       /\ fsys' = w.fs
                       /\ writeLog' = IF w.err = NoErr
                                      THEN Append(writeLog,
                                              Written(2, targetFilePath,
                                                      fsys[targetFilePath],
                                                      FALSE))
                                      ELSE writeLog
                       /\ WalkStep(w.err, Len(GenericFiles))
    /\ UNCHANGED << undoErr, fs0, project, project0, filesToRestore, runLog,
                    undoLog >>
    /\ UNCHANGED mergeVars
    /\ UNCHANGED sessionVars

-----------------------------------------------------------------------------
(* Task 3: MergeYamlAndJsonFiles.Run (create.go 160-208) *)

Snapshotted(restore, path) ==
    \E i \in 1..Len(restore) : restore[i].filePath = path

\* lines 192-198: the merge chosen by the extension of the target
MergeByExtension(targetPath, oldContent, content) ==
    IF HasSuffix(targetPath, ".yml")
    THEN [panic |-> FALSE, err |-> NoErr,
          out |-> IF oldContent.t = "text" /\ content.t = "text"
                  THEN Text(mergeYaml(oldContent.s, content.s))
                  ELSE NilBytes]
    ELSE mergeJson(oldContent, content)

\* lines 164-205: OnEachFile of the walk of the type's subtree
MergeYamlAndJsonFilesEach ==
    /\ pc = "MergeYamlAndJsonFiles"
    /\ LET name       == TypeFiles[cursor]
           targetPath == Join(RootDir, name)
           content    == TypeTemplate(name)
       IN
       IF ~HasSuffix(targetPath, ".yml") /\ ~HasSuffix(targetPath, ".json")
       THEN /\ WalkStep(NoErr, Len(TypeFiles))
            /\ UNCHANGED << fsys, filesToRestore, writeLog, faults >>
       ELSE IF OpenFileForAppendFails(fsys, targetPath)
       THEN \E f \in Faulty({"copy"}) :
               LET c == WriteFileOp(fsys, targetPath, content, f = "copy",
                                    "CopyFile")
               IN
               /\ Inject(f)
               /\ fsys' = c.fs
               /\ writeLog' = IF c.err = NoErr
                              THEN Append(writeLog,
                                      Written(3, targetPath, fsys[targetPath], FALSE))
                              ELSE writeLog
               /\ UNCHANGED filesToRestore
               /\ WalkStep(c.err, Len(TypeFiles))
       ELSE \E f \in Faulty({"read", "write"}) :
               LET oldContent == fsys[targetPath].content
                   restore    == Append(filesToRestore,
                                        [content  |-> oldContent,
                                         filePath |-> targetPath])
                   m == MergeByExtension(targetPath, oldContent, content)
                   w == WriteFileOp(fsys, targetPath, m.out, f = "write",
                                    "WriteFile")
               IN
               /\ Inject(f)
               /\ IF f = "read"
                  THEN /\ WalkStep(Error("IOError", "ReadFile"), Len(TypeFiles))
                       /\ UNCHANGED << fsys, filesToRestore, writeLog >>
                  ELSE IF m.panic
                  THEN /\ pc' = "panic"
                       /\ filesToRestore' = restore
                       /\ UNCHANGED << fsys, writeLog, cursor, taskId, status,
                                       err, retLog >>
                  ELSE /\ filesToRestore' = restore
                       /\ fsys' = w.fs
                       /\ writeLog' = IF w.err = NoErr
                                      THEN Append(writeLog,
                                              Written(3, targetPath,
                                                      fsys[targetPath],
                                                      Snapshotted(restore, targetPath)))
                                      ELSE writeLog
                       /\ WalkStep(w.err, Len(TypeFiles))
    /\ UNCHANGED << undoErr, fs0, project, project0, newFilePaths, runLog,
                    undoLog >>
    /\ UNCHANGED mergeVars
    /\ UNCHANGED sessionVars

-----------------------------------------------------------------------------
(* The Undo of each task.  failAt = i > 0 makes the i-th filesystem        *)
(* operation of the Undo fail for an external reason.                      *)

\* create.go 59-61
MakeDirUndo(fs, failAt) == RemoveDirOp(fs, RootDir, failAt = 1)

\* create.go 99-101
CreateSourceFilesUndo(fs, failAt) == RemoveDirOp(fs, SourceDirPath, failAt = 1)

\* create.go 134-141: remove the recorded paths, stop at the first error
RECURSIVE RemoveAllFrom(_, _, _, _)
RemoveAllFrom(fs, paths, i, failAt) ==
    IF i > Len(paths) THEN [fs |-> fs, err |-> NoErr]
    ELSE LET r == RemoveOp(fs, paths[i], failAt = i) IN
         IF r.err # NoErr THEN r
         ELSE RemoveAllFrom(r.fs, paths, i + 1, failAt)

MergeTemplatesUndo(fs, paths, failAt) == RemoveAllFrom(fs, paths, 1, failAt)

\* create.go 209-214: the loop body returns in its first iteration
MergeYamlAndJsonFilesUndo(fs, restore, failAt) ==
    IF Len(restore) = 0 THEN [fs |-> fs, err |-> NoErr]
    ELSE LET file == restore[1] IN
         WriteFileOp(fs, file.filePath, file.content, failAt = 1, "Undo")

\* number of filesystem operations the Undo of task t may attempt
UndoOps(t) ==
    CASE t = 0 -> 1
      [] t = 1 -> 1
      [] t = 2 -> Len(newFilePaths)
      [] t = 3 -> IF Len(filesToRestore) = 0 THEN 0 ELSE 1

TaskUndo(t, fs, failAt) ==
    CASE t = 0 -> MakeDirUndo(fs, failAt)
      [] t = 1 -> CreateSourceFilesUndo(fs, failAt)
      [] t = 2 -> MergeTemplatesUndo(fs, newFilePaths, failAt)
      [] t = 3 -> MergeYamlAndJsonFilesUndo(fs, filesToRestore, failAt)

-----------------------------------------------------------------------------
(* Process.Undo (create.go 279-287) and the return of Process.Run *)

SetMax(S) == CHOOSE x \in S : \A y \in S : y <= x

\* the tasks whose Undo Process.Undo invokes, in order: scanning the status
\* from the last task down, it returns the Undo of the first "fail" it meets
UndoTargets(st) ==
    LET failed == {t \in TaskIds : st[t] = "fail"} IN
    IF failed = {} THEN <<>> ELSE << SetMax(failed) >>

\* RunResult with the error of the rollback taking the place of the result
RunResultMasked(runErr, uErr) == IF uErr # NoErr THEN uErr ELSE runErr

\* what Process.Run returns after a failed task (line 272): the named
\* result err, which still holds the error of task.Run
RunResult(runErr, uErr) == runErr

ProcessUndo ==
    /\ pc = "undo"
    /\ LET targets == UndoTargets(status) IN
       IF targets = <<>>
       THEN /\ undoErr' = NoErr
            /\ err' = RunResult(err, NoErr)
            /\ UNCHANGED << fsys, undoLog, faults >>
       ELSE LET t == targets[1] IN
            \E failAt \in 0..(IF faults < MaxFaults THEN UndoOps(t) ELSE 0) :
               LET r == TaskUndo(t, fsys, failAt) IN
               /\ faults' = IF failAt = 0 THEN faults ELSE faults + 1
               /\ fsys' = r.fs
               /\ undoErr' = r.err
               /\ undoLog' = Append(undoLog, t)
               /\ err' = RunResult(err, r.err)
    /\ pc' = "done"
    /\ UNCHANGED << taskId, cursor, status, fs0, project, project0,
                    newFilePaths, filesToRestore, runLog, retLog, writeLog >>
    /\ UNCHANGED mergeVars
    /\ UNCHANGED sessionVars

-----------------------------------------------------------------------------
(* CLI.create (main.go 53-71) *)

\* ValidArgs accepting a call that lacks its last argument
ValidArgsAtLeastThree(a) == Len(a) >= 3

\* main.go 54: if len(args) != 4 { panic(...) }
ValidArgs(a) == Len(a) = 4

\* a list without its i-th element
Without(a, i) == SubSeq(a, 1, i - 1) \o SubSeq(a, i + 1, Len(a))

\* the argument lists `create` may be called with: complete ones, lists
\* missing one or all of the four values, and a list with one too many
ArgLists ==
    LET complete == {CreateArgs(t) : t \in TemplateIds} IN
    complete
    \cup {Without(a, i) : a \in complete, i \in 1..4}
    \cup {<<>>}
    \cup {Append(a, <<"extra">>) : a \in complete}

InitCli ==
    /\ Solo
    /\ NewApi
    /\ pc = "create"
    /\ taskId = 0
    /\ cursor = 1
    /\ status = [t \in TaskIds |-> ""]
    /\ err = NoErr
    /\ undoErr = NoErr
    /\ fsys \in InitialFilesystems
    /\ fs0 = fsys
    /\ project = NewProject(<<>>, [k \in {} |-> <<>>])
    /\ project0 = project
    /\ newFilePaths = <<>>
    /\ filesToRestore = <<>>
    /\ runLog = <<>>
    /\ retLog = <<>>
    /\ undoLog = <<>>
    /\ writeLog = <<>>
    /\ faults = 0
    /\ args \in ArgLists
    /\ IdleMerge

\* the check of the arguments, the descriptor and NewExtensionProject up to
\* setup.Run(); the type and the root directory are the ones of the model
CliCreate ==
    /\ pc = "create"
    /\ IF ~ValidArgs(args)
       THEN /\ pc' = "createPanic"
            /\ UNCHANGED << project, project0 >>
       ELSE /\ pc' = "loop"
            /\ project' = NewProject(args[3], [k \in {} |-> <<>>])
            /\ project0' = project'
    /\ UNCHANGED << taskId, cursor, status, err, undoErr, fsys, fs0,
                    newFilePaths, filesToRestore, runLog, retLog, undoLog,
                    writeLog, faults >>
    /\ UNCHANGED mergeVars
    /\ UNCHANGED sessionVars

Next ==
    \/ TaskCall
    \/ RunReturn
    \/ MakeDirRun
    \/ CreateSourceFilesRun
    \/ CreateSourceFilesEach
    \/ MergeTemplatesEach
    \/ MergeYamlAndJsonFilesEach
    \/ ProcessUndo

Spec == Init /\ [][Next]_vars

NextCli == CliCreate \/ Next

-----------------------------------------------------------------------------
(* Two invocations of NewExtensionProject (create.go 23-40) whose task      *)
(* steps interleave.  Each has its own FS, project and Process; the         *)
(* filesystem is the one they both write.  The variables of the pipeline    *)
(* hold the state of the invocation that is running, `other` the state of   *)
(* the one that is not.                                                     *)

\* the template both invocations are given
PairTemplates == { <<"javascript">> }

\* the state of an invocation: what NewExtensionProject builds (lines 24-37)
\* and what its Process.Run has done so far
Local ==
    [pc |-> pc, taskId |-> taskId, cursor |-> cursor, status |-> status,
     err |-> err, undoErr |-> undoErr, project |-> project,
     project0 |-> project0, newFilePaths |-> newFilePaths,
     filesToRestore |-> filesToRestore, runLog |-> runLog,
     retLog |-> retLog, undoLog |-> undoLog, writeLog |-> writeLog,
     rootDir |-> rootDir]

\* an invocation of root directory r at the call of setup.Run()
FreshInvocation(r, template) ==
    [pc |-> "loop", taskId |-> 0, cursor |-> 1,
     status |-> [t \in TaskIds |-> ""],
     err |-> NoErr, undoErr |-> NoErr,
     project |-> NewProject(template, [k \in {} |-> <<>>]),
     project0 |-> NewProject(template, [k \in {} |-> <<>>]),
     newFilePaths |-> <<>>, filesToRestore |-> <<>>, runLog |-> <<>>,
     retLog |-> <<>>, undoLog |-> <<>>, writeLog |-> <<>>,
     rootDir |-> r]

\* the pairs of different root directories of two invocations
RootPairs == {pair \in RootDirs \X RootDirs : pair[1] # pair[2]}

\* nothing on disk, or the two root directories and nothing else
PairFilesystems(pair) ==
    { AllAbsent,
      [p \in AllPaths |-> IF p \in {pair[1], pair[2], DefaultRoot}
                          THEN DirE ELSE AbsentE] }

InitPair ==
    /\ active = 1
    /\ NewApi
    /\ \E pair \in RootPairs, t1, t2 \in PairTemplates :
          /\ rootDir = pair[1]
          /\ other = FreshInvocation(pair[2], t2)
          /\ fsys \in PairFilesystems(pair)
          /\ project = NewProject(t1, [k \in {} |-> <<>>])
    /\ pc = "loop"
    /\ taskId = 0
    /\ cursor = 1
    /\ status = [t \in TaskIds |-> ""]
    /\ err = NoErr
    /\ undoErr = NoErr
    /\ fs0 = fsys
    /\ project0 = project
    /\ newFilePaths = <<>>
    /\ filesToRestore = <<>>
    /\ runLog = <<>>
    /\ retLog = <<>>
    /\ undoLog = <<>>
    /\ writeLog = <<>>
    /\ faults = 0
    /\ args = CreateArgs(project.Template)
    /\ IdleMerge

\* the scheduler takes the running invocation off and puts the other one on
Switch ==
    /\ other # NoInvocation
    /\ other.pc \notin {"done", "panic"}
    /\ active' = 3 - active
    /\ other' = Local
    /\ pc' = other.pc
    /\ taskId' = other.taskId
    /\ cursor' = other.cursor
    /\ status' = other.status
    /\ err' = other.err
    /\ undoErr' = other.undoErr
    /\ project' = other.project
    /\ project0' = other.project0
    /\ newFilePaths' = other.newFilePaths
    /\ filesToRestore' = other.filesToRestore
    /\ runLog' = other.runLog
    /\ retLog' = other.retLog
    /\ undoLog' = other.undoLog
    /\ writeLog' = other.writeLog
    /\ rootDir' = other.rootDir
    /\ UNCHANGED << fsys, fs0, faults, args >>
    /\ UNCHANGED apiVars
    /\ UNCHANGED mergeVars

NextPair == Switch \/ Next

SpecPair == InitPair /\ [][NextPair]_vars

SpecCli == InitCli /\ [][NextCli]_vars

TypeOK ==
    /\ pc \in {"loop", "MakeDir", "CreateSourceFiles", "CreateSourceFilesEach",
               "MergeTemplates", "MergeYamlAndJsonFiles", "undo", "done",
               "panic"}
    /\ taskId \in 0..NumTasks
    /\ status \in [TaskIds -> {"", "fail", "success"}]
    /\ faults \in 0..MaxFaults

-----------------------------------------------------------------------------
(* Harness for mergeJson: every pair of bounded documents is merged once   *)

\* number of dependency names the documents of the harness draw from
MaxKeys == 2

KeyNames == <<"a", "b", "c", "e">>

Keys == {KeyNames[i] : i \in 1..MaxKeys}

Versions == {"1", "2"}

NoField == [t |-> "absent"]

StringMaps == UNION {[K -> Versions] : K \in SUBSET Keys}

DependencyChoices == {NoField} \cup {JMap(m) : m \in StringMaps}

DevDependencyChoices ==
    {NoField, JMap(MapOf({<<"d", "1">>})), JMap(MapOf({<<"d", "2">>}))}

LicenseChoices == {NoField, JStr("MIT"), JStr("ISC")}

\* a top-level field packageJSON does not declare
NameChoices == {NoField, JStr("ext")}

\* the object with the given fields, a NoField field being left out
MakeDoc(d, dd, l) ==
    LET full == [dependencies |-> d, devDependencies |-> dd, license |-> l]
    IN  [k \in {f \in DOMAIN full : full[f].t # "absent"} |-> full[k]]

\* the object `doc` with the field "name" added, unless n is NoField
WithName(doc, n) ==
    IF n.t = "absent" THEN doc
    ELSE [k \in DOMAIN doc \cup {"name"} |-> IF k = "name" THEN n ELSE doc[k]]

Documents ==
    {Json(WithName(MakeDoc(d, dd, l), n)) : d \in DependencyChoices,
                                            dd \in DevDependencyChoices,
                                            l \in LicenseChoices,
                                            n \in NameChoices}

IdlePipeline ==
    /\ Solo
    /\ pc = "idle"
    /\ taskId = 0
    /\ cursor = 1
    /\ status = [t \in TaskIds |-> ""]
    /\ err = NoErr
    /\ undoErr = NoErr
    /\ fsys = AllAbsent
    /\ fs0 = AllAbsent
    /\ project = NewProject(<<"javascript">>, [k \in {} |-> <<>>])
    /\ project0 = project
    /\ newFilePaths = <<>>
    /\ filesToRestore = <<>>
    /\ runLog = <<>>
    /\ retLog = <<>>
    /\ undoLog = <<>>
    /\ writeLog = <<>>
    /\ faults = 0
    /\ args = CreateArgs(project.Template)

InitMerge ==
    /\ IdlePipeline
    /\ NewApi
    /\ mOrig \in Documents \cup {Malformed}
    /\ mNew \in Documents \cup {Malformed}
    /\ mOut = [panic |-> FALSE, err |-> NoErr, out |-> NilBytes]
    /\ mpc = "ready"

\* formattedContent, err = mergeJson(oldContent, content, fs)
MergeJsonCall ==
    /\ mpc = "ready"
    /\ mOut' = mergeJson(mOrig, mNew)
    /\ mpc' = IF mOut'.panic THEN "panicked" ELSE "returned"
    /\ UNCHANGED << mOrig, mNew >>
    /\ UNCHANGED pipeVars

NextMerge == MergeJsonCall

SpecMerge == InitMerge /\ [][NextMerge]_vars

-----------------------------------------------------------------------------
(* Harness for mergeYaml: every bounded fragment is merged once into each  *)
(* original                                                                *)

\* longest fragment of the harness, in tokens
MaxYamlLen == 4

YamlTokens == {"---", "\n", "y: 2"}

YamlFragments == UNION {[1..n -> YamlTokens] : n \in 0..MaxYamlLen}

YamlOriginals == { <<>>, <<"x: 1", "\n">>, <<"x: 1", "\n", "---", "\n">> }

InitYaml ==
    /\ IdlePipeline
    /\ NewApi
    /\ mOrig \in {Text(o) : o \in YamlOriginals}
    /\ mNew \in {Text(f) : f \in YamlFragments}
    /\ mOut = [panic |-> FALSE, err |-> NoErr, out |-> NilBytes]
    /\ mpc = "ready"

\* formattedContent, err = mergeYaml(oldContent, content, fs)
MergeYamlCall ==
    /\ mpc = "ready"
    /\ mOut' = [panic |-> FALSE, err |-> NoErr,
                out |-> Text(mergeYaml(mOrig.s, mNew.s))]
    /\ mpc' = "returned"
    /\ UNCHANGED << mOrig, mNew >>
    /\ UNCHANGED pipeVars

NextYaml == MergeYamlCall

SpecYaml == InitYaml /\ [][NextYaml]_vars

-----------------------------------------------------------------------------
(* The websocket API (api.go 44-56, 89-135, 280-313): one goroutine runs    *)
(* sendStatusUpdates for each client, one handleClientMessages once         *)
(* started, one calls Notify and one calls Shutdown.                        *)

\* number of calls of Shutdown
MaxShutdowns == 1

\* what no step of the API changes
parkedVars ==
    << pc, taskId, cursor, status, err, undoErr, fsys, fs0, project, project0,
       newFilePaths, filesToRestore, runLog, retLog, undoLog, writeLog,
       faults, args, rootDir, other, active, mergeVars >>

\* the positions inside the close closure of lines 105-109:
\* unregisterClient up to the close message (286-290), the rest of
\* unregisterClient (293-295), close(notifications) (107)
InClose(p) == p \in {"close.unregister", "close.delete", "close.chan"}

AfterClose(p, done) ==
    CASE p = "close.unregister" -> "close.delete"
      [] p = "close.delete"     -> "close.chan"
      [] p = "close.chan"       -> done

\* the step at position p of the close closure of client c
CloseStep(c, p) ==
    /\ sent' = IF p = "close.unregister" /\ connection[c] = "open"
               THEN [sent EXCEPT ![c] = Append(@, "close")]
               ELSE sent
    /\ connection' = IF p = "close.delete"
                     THEN [connection EXCEPT ![c] = "closed"]
                     ELSE connection
    /\ connections' = IF p = "close.delete"
                      THEN connections \ {c}
                      ELSE connections
    /\ closes' = IF p = "close.chan"
                 THEN [closes EXCEPT ![c] = @ + 1]
                 ELSE closes
    /\ notifications' = IF p = "close.chan"
                        THEN [notifications EXCEPT ![c] = "closed"]
                        ELSE notifications

\* close of a closed channel panics
ClosePanics(c, p) == p = "close.chan" /\ notifications[c] = "closed"

\* whether a write to the connection of c may succeed; it fails on a closed
\* connection and may fail on an open one (deadline, network)
WriteOutcomes(c) == IF connection[c] = "open" THEN BOOLEAN ELSE {FALSE}

\* lines 98-111: Upgrade, make(chan StatusUpdate), SetCloseHandler
Upgrade ==
    /\ ~crashed
    /\ \E c \in Clients, ok \in BOOLEAN :
          /\ hpc[c] = "request"
          /\ IF ok
             THEN /\ connection' = [connection EXCEPT ![c] = "open"]
                  /\ notifications' = [notifications EXCEPT ![c] = "open"]
                  /\ hpc' = [hpc EXCEPT ![c] = "register"]
             ELSE /\ hpc' = [hpc EXCEPT ![c] = "returned"]
                  /\ UNCHANGED << connection, notifications >>
    /\ UNCHANGED << connections, rpc, npc, spc, sent, closes, sentOnClosed,
                    connectedFailed, crashed >>
    /\ UNCHANGED parkedVars

\* lines 113-115 and 280-283
RegisterClient ==
    /\ ~crashed
    /\ \E c \in Clients :
          /\ hpc[c] = "register"
          /\ connections' = connections \cup {c}
          /\ hpc' = [hpc EXCEPT ![c] = "connected"]
    /\ UNCHANGED << connection, notifications, rpc, npc, spc, sent, closes,
                    sentOnClosed, connectedFailed, crashed >>
    /\ UNCHANGED parkedVars

\* WriteConnected entering the loop also when the write failed
WriteConnectedIgnoresError ==
    /\ ~crashed
    /\ \E c \in Clients, ok \in BOOLEAN :
          /\ hpc[c] = "connected"
          /\ ok \in WriteOutcomes(c)
          /\ sent' = IF ok THEN [sent EXCEPT ![c] = Append(@, "connected")]
                     ELSE sent
          /\ connectedFailed' = IF ok THEN connectedFailed
                                ELSE connectedFailed \cup {c}
          /\ rpc' = [rpc EXCEPT ![c] = "reading"]
          /\ hpc' = [hpc EXCEPT ![c] = "loop"]
    /\ UNCHANGED << connections, connection, notifications, npc, spc, closes,
                    sentOnClosed, crashed >>
    /\ UNCHANGED parkedVars

\* lines 117-124: write the "connected" update; on an error run close and
\* return, else start handleClientMessages and enter the loop
WriteConnected ==
    /\ ~crashed
    /\ \E c \in Clients, ok \in BOOLEAN :
          /\ hpc[c] = "connected"
          /\ ok \in WriteOutcomes(c)
          /\ IF ok
             THEN /\ sent' = [sent EXCEPT ![c] = Append(@, "connected")]
                  /\ rpc' = [rpc EXCEPT ![c] = "reading"]
                  /\ hpc' = [hpc EXCEPT ![c] = "loop"]
                  /\ UNCHANGED connectedFailed
             ELSE /\ connectedFailed' = connectedFailed \cup {c}
                  /\ hpc' = [hpc EXCEPT ![c] = "close.unregister"]
                  /\ UNCHANGED << sent, rpc >>
    /\ UNCHANGED << connections, connection, notifications, npc, spc, closes,
                    sentOnClosed, crashed >>
    /\ UNCHANGED parkedVars

\* line 120: the close closure run by sendStatusUpdates; a panic in an HTTP
\* handler is recovered by net/http and ends the handler only
HandlerClose ==
    /\ ~crashed
    /\ \E c \in Clients :
          /\ InClose(hpc[c])
          /\ CloseStep(c, hpc[c])
          /\ hpc' = [hpc EXCEPT ![c] = IF ClosePanics(c, @) THEN "panicked"
                                       ELSE AfterClose(@, "returned")]
    /\ UNCHANGED << rpc, npc, spc, sentOnClosed, connectedFailed, crashed >>
    /\ UNCHANGED parkedVars

\* line 126: range over a closed channel ends the loop
LoopClosed ==
    /\ ~crashed
    /\ \E c \in Clients :
          /\ hpc[c] = "loop"
          /\ notifications[c] = "closed"
          /\ hpc' = [hpc EXCEPT ![c] = "returned"]
    /\ UNCHANGED << connections, connection, notifications, rpc, npc, spc,
                    sent, closes, sentOnClosed, connectedFailed, crashed >>
    /\ UNCHANGED parkedVars

\* lines 127-133: write the notification; break on an error
WriteNotification ==
    /\ ~crashed
    /\ \E c \in Clients, ok \in BOOLEAN :
          /\ hpc[c] = "write"
          /\ ok \in WriteOutcomes(c)
          /\ IF ok
             THEN /\ sent' = [sent EXCEPT ![c] = Append(@, "update")]
                  /\ hpc' = [hpc EXCEPT ![c] = "loop"]
             ELSE /\ hpc' = [hpc EXCEPT ![c] = "returned"]
                  /\ UNCHANGED sent
    /\ UNCHANGED << connections, connection, notifications, rpc, npc, spc,
                    closes, sentOnClosed, connectedFailed, crashed >>
    /\ UNCHANGED parkedVars

\* lines 303-313 and 111: ReadMessage receives the close message of the
\* client and calls the close handler
ClientCloses ==
    /\ ~crashed
    /\ \E c \in Clients :
          /\ rpc[c] = "reading"
          /\ connection[c] = "open"
          /\ rpc' = [rpc EXCEPT ![c] = "close.unregister"]
    /\ UNCHANGED << connections, connection, notifications, hpc, npc, spc,
                    sent, closes, sentOnClosed, connectedFailed, crashed >>
    /\ UNCHANGED parkedVars

\* the close closure run as the close handler, in the goroutine of
\* handleClientMessages, where nothing recovers a panic
ReaderClose ==
    /\ ~crashed
    /\ \E c \in Clients :
          /\ InClose(rpc[c])
          /\ CloseStep(c, rpc[c])
          /\ rpc' = [rpc EXCEPT ![c] = IF ClosePanics(c, @) THEN "panicked"
                                       ELSE AfterClose(@, "ended")]
          /\ crashed' = ClosePanics(c, rpc[c])
    /\ UNCHANGED << hpc, npc, spc, sentOnClosed, connectedFailed >>
    /\ UNCHANGED parkedVars

\* lines 308-311: ReadMessage fails on the closed connection
ReaderEnds ==
    /\ ~crashed
    /\ \E c \in Clients :
          /\ rpc[c] = "reading"
          /\ connection[c] = "closed"
          /\ rpc' = [rpc EXCEPT ![c] = "ended"]
    /\ UNCHANGED << connections, connection, notifications, hpc, npc, spc,
                    sent, closes, sentOnClosed, connectedFailed, crashed >>
    /\ UNCHANGED parkedVars

\* line 44: a call of Notify
NotifyCall ==
    /\ ~crashed
    /\ npc.at = "idle"
    /\ npc.calls < MaxNotifies
    /\ npc' = [at |-> "range", visited |-> {}, target |-> 0,
               calls |-> npc.calls + 1]
    /\ UNCHANGED << connections, connection, notifications, hpc, rpc, spc,
                    sent, closes, sentOnClosed, connectedFailed, crashed >>
    /\ UNCHANGED parkedVars

\* lines 45-48: Range reaches an entry that is there and not yet visited,
\* or is over
NotifyRange ==
    /\ ~crashed
    /\ npc.at = "range"
    /\ IF connections \ npc.visited = {}
       THEN npc' = Idle(npc.calls)
       ELSE \E c \in connections \ npc.visited :
               npc' = [npc EXCEPT !.at = "send", !.target = c,
                                  !.visited = @ \cup {c}]
    /\ UNCHANGED << connections, connection, notifications, hpc, rpc, spc,
                    sent, closes, sentOnClosed, connectedFailed, crashed >>
    /\ UNCHANGED parkedVars

\* lines 46 and 114: notifications <- update.  The channel has no buffer:
\* the send waits for the receive of line 126, and panics on a closed
\* channel
NotifySend ==
    /\ ~crashed
    /\ npc.at = "send"
    /\ LET c == npc.target IN
       IF notifications[c] = "closed"
       THEN /\ sentOnClosed' = sentOnClosed \cup {c}
            /\ crashed' = TRUE
            /\ npc' = [npc EXCEPT !.at = "panicked"]
            /\ UNCHANGED hpc
       ELSE /\ hpc[c] = "loop"
            /\ hpc' = [hpc EXCEPT ![c] = "write"]
            /\ npc' = [npc EXCEPT !.at = "range", !.target = 0]
            /\ UNCHANGED << sentOnClosed, crashed >>
    /\ UNCHANGED << connections, connection, notifications, rpc, spc, sent,
                    closes, connectedFailed >>
    /\ UNCHANGED parkedVars

\* line 51: a call of Shutdown
ShutdownCall ==
    /\ ~crashed
    /\ spc.at = "idle"
    /\ spc.calls < MaxShutdowns
    /\ spc' = [at |-> "range", visited |-> {}, target |-> 0,
               calls |-> spc.calls + 1]
    /\ UNCHANGED << connections, connection, notifications, hpc, rpc, npc,
                    sent, closes, sentOnClosed, connectedFailed, crashed >>
    /\ UNCHANGED parkedVars

\* lines 52-55: Range reaches an entry and calls its close, or is over
ShutdownRange ==
    /\ ~crashed
    /\ spc.at = "range"
    /\ IF connections \ spc.visited = {}
       THEN spc' = Idle(spc.calls)
       ELSE \E c \in connections \ spc.visited :
               spc' = [spc EXCEPT !.at = "close.unregister", !.target = c,
                                  !.visited = @ \cup {c}]
    /\ UNCHANGED << connections, connection, notifications, hpc, rpc, npc,
                    sent, closes, sentOnClosed, connectedFailed, crashed >>
    /\ UNCHANGED parkedVars

\* line 53: the close closure run by Shutdown
ShutdownClose ==
    /\ ~crashed
    /\ InClose(spc.at)
    /\ CloseStep(spc.target, spc.at)
    /\ spc' = [spc EXCEPT !.at = IF ClosePanics(spc.target, @) THEN "panicked"
                                 ELSE AfterClose(@, "range"),
                          !.target = IF spc.at = "close.chan"
                                        /\ ~ClosePanics(spc.target, spc.at)
                                     THEN 0 ELSE @]
    /\ crashed' = ClosePanics(spc.target, spc.at)
    /\ UNCHANGED << hpc, rpc, npc, sentOnClosed, connectedFailed >>
    /\ UNCHANGED parkedVars

InitApi == IdlePipeline /\ NewApi /\ IdleMerge

NextApi ==
    \/ Upgrade
    \/ RegisterClient
    \/ WriteConnected
    \/ HandlerClose
    \/ LoopClosed
    \/ WriteNotification
    \/ ClientCloses
    \/ ReaderClose
    \/ ReaderEnds
    \/ NotifyCall
    \/ NotifyRange
    \/ NotifySend
    \/ ShutdownCall
    \/ ShutdownRange
    \/ ShutdownClose

SpecApi == InitApi /\ [][NextApi]_vars

\* the positions and values the API model uses
ApiTypeOK ==
    /\ connections \subseteq Clients
    /\ connection \in [Clients -> {"none", "open", "closed"}]
    /\ notifications \in [Clients -> {"nil", "open", "closed"}]
    /\ \A c \in Clients :
          hpc[c] \in {"request", "register", "connected", "loop", "write",
                      "close.unregister", "close.delete", "close.chan",
                      "returned", "panicked"}

-----------------------------------------------------------------------------
(* Properties *)

FailedTasks == {t \in TaskIds : status[t] = "fail"}

\* the target paths of the generic templates
GenericTargets ==
    {TrimSuffix(Join(RootDir, GenericFiles[i]), templateFileExtension) :
        i \in {j \in 1..Len(GenericFiles) :
                 HasSuffix(Join(RootDir, GenericFiles[j]), templateFileExtension)}}

\* C1 -- Atomicity: whenever a task's Run failed and Process.Run has
\* returned the error, the filesystem is identical to the filesystem at
\* the call of Process.Run.
C1_Atomicity ==
    (pc = "done" /\ FailedTasks # {}) => fsys = fs0

\* C2 -- Rollback order: when task k failed, Undo has been invoked on the
\* succeeded tasks k-1 down to 0, in that order, then on task k, and on no
\* other task.
C2_RollbackOrder ==
    (pc = "done" /\ FailedTasks # {}) =>
        LET k == CHOOSE t \in FailedTasks : TRUE IN
        undoLog = [i \in 1..(k + 1) |-> IF i <= k THEN k - i ELSE k]

TaskOrder ==
    << "MakeDir", "CreateSourceFiles", "MergeTemplates",
       "MergeYamlAndJsonFiles" >>

\* C3 -- Sequential execution: the Runs invoked so far are a prefix of
\* MakeDir, CreateSourceFiles, MergeTemplates, MergeYamlAndJsonFiles; every
\* Run but the last invoked one has returned, and returned success; a Run
\* that returned an error is the last Run ever invoked.
C3_Sequential ==
    /\ Len(runLog) <= Len(TaskOrder)
    /\ runLog = SubSeq(TaskOrder, 1, Len(runLog))
    /\ Len(retLog) \in {Len(runLog) - 1, Len(runLog)}
    /\ \A i \in 1..Len(retLog) : retLog[i].task = i - 1
    /\ \A i \in 2..Len(runLog) : retLog[i - 1].err = NoErr
    /\ \A i \in 1..Len(retLog) : retLog[i].err # NoErr => Len(runLog) = i

\* three Runs were invoked in order and the third one failed
C3_Witness ==
    /\ pc = "done"
    /\ Len(runLog) = 3
    /\ retLog[3].err # NoErr

\* C4 -- Primary error preserved: when a task's Run returned the error e,
\* Process.Run returns e, whether or not the rollback failed.
C4_PrimaryError ==
    pc = "done" =>
        \A i \in 1..Len(retLog) :
            retLog[i].err # NoErr => err = retLog[i].err

\* a Run failed, the rollback failed too, and Process.Run has returned
C4_Witness ==
    /\ pc = "done"
    /\ undoErr # NoErr
    /\ \E i \in 1..Len(retLog) : retLog[i].err # NoErr

\* C5 -- MergeManifests undo is complete: after the Run of
\* MergeYamlAndJsonFiles stopped and its Undo ran without an external
\* failure, every file the Run wrote is as it was before the write: absent
\* if the Run created it, the original bytes if it existed.
C5_UndoComplete ==
    (pc = "done" /\ status[3] = "fail" /\ faults <= 1) =>
        \A i \in 1..Len(writeLog) :
            writeLog[i].task = 3 => fsys[writeLog[i].path] = writeLog[i].before

\* C6 -- Malformed manifest is fatal: an existing .json target that cannot
\* be parsed is never written, the task is not marked succeeded, and
\* Process.Run returns an error.
C6_MalformedFatal ==
    \A i \in 1..Len(filesToRestore) :
        LET file == filesToRestore[i] IN
        (HasSuffix(file.filePath, ".json") /\ Unmarshal(file.content).err) =>
            /\ fsys[file.filePath] = FileE(file.content)
            /\ status[3] # "success"
            /\ pc = "done" => err # NoErr

\* C7 -- RenderGenericTemplates undo: after the Run of MergeTemplates
\* stopped and its Undo ran without an external failure, no target of a
\* generic template holds a file written by the Run and every file that
\* was at such a target before is there with its original bytes.
C7_TemplatesUndo ==
    (pc = "done" /\ status[2] = "fail" /\ faults <= 1) =>
        \A p \in GenericTargets : fsys[p] = fs0[p]

\* C8 -- Undo safety: the Undo of a task whose Run stopped part-way returns
\* no error (absent an external failure) and every file and directory that
\* existed before the invocation is still there.
C8_UndoSafe ==
    (pc = "done" /\ undoLog # <<>> /\ faults <= 1) =>
        /\ undoErr = NoErr
        /\ \A p \in AllPaths :
              fs0[p].kind # "absent" => fsys[p].kind = fs0[p].kind

EntryNameTable(react, typescript) ==
    CASE react /\ typescript   -> <<"index", ".tsx">>
      [] react /\ ~typescript  -> <<"index", ".js">>
      [] ~react /\ typescript  -> <<"index", ".ts">>
      [] ~react /\ ~typescript -> <<"index", ".js">>

\* C9 -- Entry-name table: the entry file name CreateSourceFiles takes from
\* getMainFileName is index.tsx for (React, TypeScript), index.js for
\* (React, no TypeScript), index.ts for (no React, TypeScript) and index.js
\* for (no React, no TypeScript).
C9_EntryName ==
    "main" \in DOMAIN project.Entries =>
        project.Entries["main"] =
            << defaultSourceDir, EntryNameTable(project.React, project.TypeScript) >>

\* the entry of a React project without TypeScript has been set
C9_Witness ==
    /\ "main" \in DOMAIN project.Entries
    /\ project.React
    /\ ~project.TypeScript

KeysOf(doc, field) ==
    IF field \in DOMAIN doc /\ doc[field].t = "map"
    THEN DOMAIN doc[field].m ELSE {}

\* the merged map of `field` is the union of both maps, the new value winning
MergedNewWins(field) ==
    LET o == mOrig.doc
        n == mNew.doc
        r == mOut.out.doc
    IN  /\ KeysOf(r, field) = KeysOf(o, field) \cup KeysOf(n, field)
        /\ \A k \in KeysOf(r, field) :
              r[field].m[k] = IF k \in KeysOf(n, field)
                              THEN n[field].m[k] ELSE o[field].m[k]

\* C10 -- JSON merge, new wins: for every pair of manifest objects
\* mergeJson yields a merged document whose dependencies and
\* devDependencies are the key-wise union of both, the new value winning.
C10_NewWins ==
    (mpc \in {"returned", "panicked"} /\ mOrig.t = "json" /\ mNew.t = "json") =>
        /\ mpc = "returned"
        /\ mOut.err = NoErr
        /\ mOut.out.t = "json"
        /\ MergedNewWins("dependencies")
        /\ MergedNewWins("devDependencies")

MergedFields == {"dependencies", "devDependencies"}

\* C11 -- JSON merge, other fields: every top-level field other than
\* dependencies and devDependencies that one of the two documents has is in
\* the merged document, with the original's value when the original has
\* the field and the new document's value otherwise.
C11_OtherFields ==
    (mpc = "returned" /\ mOrig.t = "json" /\ mNew.t = "json") =>
        /\ mOut.out.t = "json"
        /\ \A f \in (DOMAIN mOrig.doc \cup DOMAIN mNew.doc) \ MergedFields :
              /\ f \in DOMAIN mOut.out.doc
              /\ mOut.out.doc[f] = IF f \in DOMAIN mOrig.doc
                                   THEN mOrig.doc[f] ELSE mNew.doc[f]

\* the fragment without a separator line ("---" and its line end) at its
\* very start; a fragment that does not start with "---" is kept whole
StripLeadingMarker(f) ==
    IF Len(f) >= 2 /\ f[1] = "---" /\ f[2] = "\n" THEN SubSeq(f, 3, Len(f))
    ELSE IF Len(f) >= 1 /\ f[1] = "---" THEN Tail(f)
    ELSE f

\* C12 -- YAML merge is literal concatenation: mergeYaml returns the
\* original followed by the fragment without a leading separator marker,
\* nothing else removed or inserted; "x: 1\n" and "---\ny: 2\n" give
\* "x: 1\ny: 2\n".
C12_YamlConcat ==
    mpc = "returned" =>
        mOut.out = Text(mOrig.s \o StripLeadingMarker(mNew.s))

\* C13 -- Validation-first: a call of create that lacks one of its four
\* values never reaches NewExtensionProject: no task's Run is invoked and
\* the filesystem is never written.
C13_ValidationFirst ==
    Len(args) < 4 =>
        /\ pc \in {"create", "createPanic"}
        /\ runLog = <<>>
        /\ writeLog = <<>>
        /\ fsys = fs0

\* create was called without its root directory and has failed
C13_Witness ==
    /\ pc = "createPanic"
    /\ \E t \in TemplateIds : args = Without(CreateArgs(t), 4)

\* C14 -- No retry: within one Process.Run no task's Run is invoked twice,
\* and after a Run returned an error that task's Run is not invoked again.
C14_NoRetry ==
    /\ \A i, j \in 1..Len(runLog) : runLog[i] = runLog[j] => i = j
    /\ \A i \in 1..Len(retLog) :
          retLog[i].err # NoErr =>
              \A j \in (i + 1)..Len(runLog) : runLog[j] # Entry(retLog[i].task)

\* the second task failed, the rollback ran and Process.Run returned after
\* two invocations
C14_Witness ==
    /\ pc = "done"
    /\ Len(runLog) = 2
    /\ Len(retLog) = 2
    /\ retLog[2].err # NoErr
    /\ undoLog # <<>>

TemplatesLeft ==
    {i \in 1..Len(writeLog) :
        /\ writeLog[i].task = 2
        /\ writeLog[i].before.kind = "absent"
        /\ fsys[writeLog[i].path].kind # "absent"}

\* C18 -- Rollback continues past undo failures: when the Run of
\* MergeTemplates failed and one removal of its Undo failed, the other
\* recorded files are removed all the same, so that at most the one file
\* whose removal failed is left of the files the Run created.
C18_UndoContinues ==
    (pc = "done" /\ status[2] = "fail") => Cardinality(TemplatesLeft) <= 1

\* the body template the claim selects
MainBodyTemplate(react) ==
    IF react THEN <<"react", ".js">> ELSE <<"javascript", ".js">>

\* C19 -- Main-body template selection: getMainTemplate is the react body
\* for React, with or without TypeScript, and the javascript body otherwise,
\* and once CreateSourceFiles succeeded rootDir/src/<entry file name> holds
\* exactly that template.
C19_MainTemplate ==
    /\ getMainTemplate(project) = MainBodyTemplate(project.React)
    /\ status[1] = "success" =>
          fsys[Join(SourceDirPath,
                    EntryNameTable(project.React, project.TypeScript))]
             = FileE(TypeTemplate(MainBodyTemplate(project.React)))

\* CreateSourceFiles succeeded for a React project without TypeScript
C19_Witness ==
    /\ status[1] = "success"
    /\ project.React
    /\ ~project.TypeScript

\* the target of the generic template the walk of MergeTemplates stopped at
StoppedTarget ==
    TrimSuffix(Join(RootDir, GenericFiles[cursor]), templateFileExtension)

\* C20 -- RenderGenericTemplates per-file failure: when the render or the
\* format of a template failed, the Run of MergeTemplates returned that
\* error, the target of that template is neither written nor recorded, and
\* no later template was processed; a file without the .tpl suffix is never
\* written.
C20_RenderFailure ==
    /\ (Len(retLog) >= 3
        /\ retLog[3].err.kind \in {"TemplateError", "FormatError"}) =>
          /\ status[2] = "fail"
          /\ err = retLog[3].err
          /\ Len(runLog) = 3
          /\ \A k \in 1..Len(newFilePaths) : newFilePaths[k] # StoppedTarget
          /\ fsys[StoppedTarget] = fs0[StoppedTarget]
          /\ \A i \in 1..Len(writeLog) :
                writeLog[i].task = 2 =>
                    \E j \in 1..(cursor - 1) :
                        writeLog[i].path =
                            TrimSuffix(Join(RootDir, GenericFiles[j]),
                                       templateFileExtension)
    /\ \A i \in 1..Len(writeLog) :
          writeLog[i].task = 2 => writeLog[i].path \in GenericTargets
    /\ \A j \in 1..Len(GenericFiles) :
          ~HasSuffix(Join(RootDir, GenericFiles[j]), templateFileExtension) =>
              fsys[Join(RootDir, GenericFiles[j])] = fs0[Join(RootDir, GenericFiles[j])]

\* the format of the second template failed after the first one was written
C20_Witness ==
    /\ Len(retLog) = 3
    /\ retLog[3].err.kind = "FormatError"
    /\ cursor = 2
    /\ Len(newFilePaths) = 1
    /\ pc = "done"

\* neither directory is the other or inside the other
Disjoint(a, b) == ~IsPrefix(a, b) /\ ~IsPrefix(b, a)

\* the step leaves everything under the directory dir as it is
LeavesAlone(dir) ==
    \A p \in AllPaths : IsPrefix(dir, p) => fsys'[p] = fsys[p]

\* C15 -- Independent invocations: of two invocations with different root
\* directories, no task step of the one changes anything under the root
\* directory of the other, whatever the interleaving.
C15_Independent ==
    [][active' = active => LeavesAlone(other.rootDir)]_vars

\* C15 (amended) -- of two invocations whose root directories are different
\* and neither inside the other, no task step of the one changes anything
\* under the root directory of the other, whatever the interleaving.
C15_IndependentDisjoint ==
    [][(active' = active /\ Disjoint(rootDir, other.rootDir))
          => LeavesAlone(other.rootDir)]_vars

\* two invocations of root directories apart from each other have both
\* run to the end, their steps interleaved, and both succeeded
C15_Witness ==
    /\ other # NoInvocation
    /\ Disjoint(rootDir, other.rootDir)
    /\ pc = "done"
    /\ other.pc = "done"
    /\ err = NoErr
    /\ other.err = NoErr
    /\ fsys[Join(rootDir, <<"package", ".json">>)].kind = "file"
    /\ fsys[Join(other.rootDir, <<"package", ".json">>)].kind = "file"

\* every Run invoked so far has returned without an error
AllRunsSucceeded ==
    /\ Len(retLog) = Len(runLog)
    /\ \A i \in 1..Len(retLog) : retLog[i].err = NoErr

\* C21 -- Success path: as long as every Run succeeds no Undo is invoked,
\* and when all four have succeeded and Process.Run has returned, it
\* returned no error and every task's status is "success".
C21_SuccessPath ==
    /\ AllRunsSucceeded => undoLog = <<>>
    /\ (pc = "done" /\ AllRunsSucceeded) =>
          /\ Len(retLog) = NumTasks
          /\ err = NoErr
          /\ undoErr = NoErr
          /\ \A t \in TaskIds : status[t] = "success"

\* all four Runs succeeded and Process.Run has returned
C21_Witness ==
    /\ pc = "done"
    /\ Len(retLog) = NumTasks
    /\ AllRunsSucceeded
    /\ writeLog # <<>>

\* the status vector: successes, then at most one failure, then no status
StatusShape(st) ==
    \E k \in 0..NumTasks :
        /\ \A t \in TaskIds : t < k => st[t] = "success"
        /\ \A t \in TaskIds : t > k => st[t] = ""
        /\ k < NumTasks => st[k] \in {"", "fail"}

\* C23 -- Pipeline status invariant: the status vector is always a prefix
\* of succeeded tasks, then at most one failed task, then tasks without a
\* status; at most one task is marked failed and a status that was set
\* never changes.
C23_StatusInvariant ==
    /\ [](StatusShape(status)
          /\ Cardinality({t \in TaskIds : status[t] = "fail"}) <= 1)
    /\ [][\A t \in TaskIds : status[t] # "" => status'[t] = status[t]]_vars

\* two tasks succeeded, the third failed, the fourth was never run
C23_Witness ==
    /\ status[0] = "success"
    /\ status[1] = "success"
    /\ status[2] = "fail"
    /\ status[3] = ""
    /\ pc = "done"

\* C26 -- JSON merge is total on valid input: for every pair of JSON
\* objects mergeJson returns, with a document or an error, and does not
\* abort the process.
C26_MergeTotal ==
    (mpc # "ready" /\ mOrig.t = "json" /\ mNew.t = "json") =>
        /\ mpc = "returned"
        /\ ~mOut.panic

\* the status updates among the messages written to client c
HasWritten(c, type) == \E i \in 1..Len(sent[c]) : sent[c][i] = type

\* sendStatusUpdates of client c is over
HandlerEnded(c) == hpc[c] \in {"returned", "panicked"}

\* C22 -- Websocket handshake ordering: the first message written to a
\* client is the "connected" update, written after the client was
\* registered; no notification is written before it; and a client whose
\* "connected" write failed is unregistered when its handler is over and is
\* never written a notification.
C22_HandshakeOrder ==
    \A c \in Clients :
        /\ sent[c] # <<>> => sent[c][1] = "connected"
        /\ HasWritten(c, "connected") => hpc[c] \notin {"request", "register"}
        /\ \A i \in 1..Len(sent[c]) :
              sent[c][i] = "update" =>
                  \E j \in 1..(i - 1) : sent[c][j] = "connected"
        /\ c \in connectedFailed =>
              /\ ~HasWritten(c, "update")
              /\ HandlerEnded(c) => c \notin connections

\* the status updates written to client c, in order
StatusUpdates(c) == SelectSeq(sent[c], LAMBDA m : m # "close")

\* C22 (amended) -- the first status update written to a client is the
\* "connected" update, written after the client was registered; no
\* notification is written before it; and a client whose "connected" write
\* failed is unregistered when its handler is over and is never written a
\* notification.  A close message may be written before either.
C22_StatusUpdateOrder ==
    \A c \in Clients :
        /\ StatusUpdates(c) # <<>> => StatusUpdates(c)[1] = "connected"
        /\ HasWritten(c, "connected") => hpc[c] \notin {"request", "register"}
        /\ \A i \in 1..Len(sent[c]) :
              sent[c][i] = "update" =>
                  \E j \in 1..(i - 1) : sent[c][j] = "connected"
        /\ c \in connectedFailed =>
              /\ ~HasWritten(c, "update")
              /\ HandlerEnded(c) => c \notin connections

\* one client was written "connected" and then a notification; the write
\* of "connected" to another failed and its handler is over
C22_Witness ==
    \E c, d \in Clients :
        /\ sent[c] = <<"connected", "update">>
        /\ d \in connectedFailed
        /\ HandlerEnded(d)

\* C24 -- Notify does not block forever: a client whose sendStatusUpdates
\* is over is no longer registered, and Notify never waits to send on the
\* open channel of a client whose loop is over.
C24_NotifyReturns ==
    /\ \A c \in Clients : HandlerEnded(c) => c \notin connections
    /\ ~(/\ npc.at = "send"
         /\ HandlerEnded(npc.target)
         /\ notifications[npc.target] = "open")

\* C25 -- Channel closing is safe: the notifications channel of a client is
\* closed at most once and nothing is sent on it once it is closed.
C25_CloseSafe ==
    \A c \in Clients :
        /\ closes[c] <= 1
        /\ c \notin sentOnClosed

====
